---- MODULE Spec2Model ----
(***************************************************************************)
(* A state-machine model of the HelperGPT front-end controller             *)
(* (src/frontend/app.js, class HelperGPT).                                 *)
(*                                                                         *)
(* The controller runs on the browser's single event loop.  Every action   *)
(* below is one run-to-completion step of that loop: either an event       *)
(* handler up to its first await, or the continuation of an async method   *)
(* when the response of its request arrives.  The requests that are in     *)
(* flight, each with the continuation that waits for it, are the bag       *)
(* `pending`.  Responses are chosen by the backend, i.e. nondeterministic. *)
(*                                                                         *)
(* The page (index.html) is assumed to hold every element the controller   *)
(* looks up with getElementById, so the `if (el)` guards are all taken.    *)
(* Text values (input boxes, file names) are sequences of one-character    *)
(* strings so that trim(), split('.') and toLowerCase() are computed.      *)
(***************************************************************************)
EXTENDS Integers, Sequences, FiniteSets, Bags, TLC

VARIABLES
    \* fields of the HelperGPT object (constructor, app.js 3-31)
    isLoggedIn, currentUser, authToken, chatHistory, uploadedDocuments, teams,
    \* visibility of the page regions the controller shows and hides
    mainViewShown, adminPanelShown, loginModalShown,
    adminLoginBtnShown, logoutBtnShown,
    processingShown, uploadProgressShown,
    \* form state held by the page: the question box, the file input's
    \* FileList, the list of pending upload items, the two selects
    questionInput, fileInputFiles, fileList, teamSelectValue, projectSelectValue,
    \* the team options the team select offers (the placeholder option aside)
    teamOptions,
    \* the notification elements showNotification created whose timer has
    \* not fired yet, oldest first, each on the page or already taken off
    \* it.  No handler reads them and showNotification reads nothing else,
    \* so they are followed by ShowNotification, which stands for a call
    \* made by any handler, and by the two actions that remove them; the
    \* handlers record the notifications they show in notices.
    notificationElements,
    \* requests in flight, each with the continuation awaiting it
    pending,
    \* the record of the step that led to this state: the handler or
    \* continuation that ran, the values it read (form fields, dropped files,
    \* or the response it was resumed with and the request that was for), the
    \* notifications it showed, the result items it rendered, the entries it
    \* dropped (from the chat history or from the document list) and the
    \* download targets it opened with window.open
    lastEvent, input, notices, rendered, evicted, opened

session  == <<isLoggedIn, currentUser, authToken>>
views    == <<mainViewShown, adminPanelShown, adminLoginBtnShown, logoutBtnShown>>
teamVars == <<teams, teamOptions>>
authVars == <<isLoggedIn, currentUser, authToken, uploadedDocuments, teams, teamOptions,
              mainViewShown, adminPanelShown, adminLoginBtnShown, logoutBtnShown,
              loginModalShown>>
chatVars == <<chatHistory, questionInput, processingShown>>
formVars == <<fileInputFiles, fileList, teamSelectValue, projectSelectValue>>
uploadVars == <<fileInputFiles, fileList, teamSelectValue, projectSelectValue,
                uploadProgressShown>>
vars == <<isLoggedIn, currentUser, authToken, chatHistory, uploadedDocuments, teams,
          mainViewShown, adminPanelShown, loginModalShown,
          adminLoginBtnShown, logoutBtnShown, processingShown, uploadProgressShown,
          questionInput, fileInputFiles, fileList, teamSelectValue, projectSelectValue,
          teamOptions, notificationElements,
          pending, lastEvent, input, notices, rendered, evicted, opened>>

-----------------------------------------------------------------------------
(* Values *)

\* JavaScript's null and undefined (a missing property)
Null == "null"
Undefined == "undefined"

\* the most requests in flight at once
MaxPending == 2

\* what the backend may hand out
Tokens == {"t1", "t2"}
Users == {"admin"}
DocSnapshots == {<<>>, <<"d1">>, <<"d2", "d1">>}

\* !x for a token, user or id: null, undefined and '' are falsy
Falsy(v) == v \in {Null, Undefined, ""}

\* the hardcoded team list (app.js 13-31)
DefaultTeams ==
    << [id |-> 1, name |-> "Engineering",
        projects |-> <<"Cloud Team", "IT Support", "IRI", "INSW", "Meraki",
                       "Nautilux", "Database", "Custom Project...">>],
       [id |-> 2, name |-> "Marketing",
        projects |-> <<"Campaign 2025", "Brand Guidelines", "Social Media">>],
       [id |-> 3, name |-> "Sales",
        projects |-> <<"Q1 Strategy", "Training Materials", "Product Demos">>],
       [id |-> 4, name |-> "HR",
        projects |-> <<"Onboarding", "Policies", "Benefits Guide">>] >>

\* the options populateTeamSelect builds for a team list (app.js 147-152)
TeamNames(list) ==
    IF list = <<>> THEN <<>> ELSE [i \in 1..Len(list) |-> list[i].name]

-----------------------------------------------------------------------------
(* Strings *)

Space == " "

RECURSIVE TrimStart(_)
TrimStart(s) ==
    IF s = <<>> THEN s
    ELSE IF Head(s) = Space THEN TrimStart(Tail(s)) ELSE s

RECURSIVE TrimEnd(_)
TrimEnd(s) ==
    IF s = <<>> THEN s
    ELSE IF s[Len(s)] = Space THEN TrimEnd(SubSeq(s, 1, Len(s) - 1)) ELSE s

\* String.prototype.trim
Trim(s) == TrimEnd(TrimStart(s))

-----------------------------------------------------------------------------
(* Notifications and requests *)

\* showNotification(message, type) (app.js 700-715): the notification
\* element put on the page; subject is the text spliced into the message
Notification(message, type, subject) ==
    [message |-> message, type |-> type, subject |-> subject]

showNotification(message, type) == Notification(message, type, <<>>)

\* a makeAPICall that attaches no Authorization header
makeAPICallAuthNever(token) == <<>>

\* the Authorization header makeAPICall attaches (app.js 100-102): only
\* when the token is truthy
makeAPICallAuth(token) ==
    IF Falsy(token) THEN <<>> ELSE <<"Bearer", token>>

\* a request in flight and the continuation that awaits it:
\*   kind  the call site: "login", "documents", "upload", "delete", "ask"
\*   ctx   for "documents", the method that awaits loadDocuments
\*   auth  the Authorization header sent
\*   body  the request's payload, a sequence of text fields
Request(kind, ctx, auth, body) ==
    [kind |-> kind, ctx |-> ctx, auth |-> auth, body |-> body]

Issue(r) == pending' = pending (+) SetToBag({r})
Settle(r) == pending (-) SetToBag({r})
CanIssue == BagCardinality(pending) < MaxPending

-----------------------------------------------------------------------------
(* Initial state: the constructor and initializeApp have run (app.js 2-64)  *)
(* and the two startup requests, GET /health and GET /teams, have failed,   *)
(* which leaves the hardcoded team list in place.                           *)

Init ==
    /\ isLoggedIn = FALSE
    /\ currentUser = Null
    /\ authToken = Null
    /\ chatHistory = <<>>
    /\ uploadedDocuments = <<>>
    /\ teams = DefaultTeams
    /\ teamOptions = TeamNames(DefaultTeams)
    /\ notificationElements = <<>>
    /\ mainViewShown = TRUE
    /\ adminPanelShown = FALSE
    /\ loginModalShown = FALSE
    /\ adminLoginBtnShown = TRUE
    /\ logoutBtnShown = FALSE
    /\ processingShown = FALSE
    /\ uploadProgressShown = FALSE
    /\ questionInput = <<>>
    /\ fileInputFiles = <<>>
    /\ fileList = <<>>
    /\ teamSelectValue = ""
    /\ projectSelectValue = ""
    /\ pending = EmptyBag
    /\ lastEvent = "constructor"
    /\ input = <<>>
    /\ notices = <<>>
    /\ rendered = <<>>
    /\ evicted = <<>>
    /\ opened = <<>>

\* the record of a step that renders no result, drops no entry and opens
\* no download target
Did(event, read, shown) ==
    /\ lastEvent' = event
    /\ UNCHANGED notificationElements
    /\ input' = read
    /\ notices' = shown
    /\ rendered' = <<>>
    /\ evicted' = <<>>
    /\ opened' = <<>>

-----------------------------------------------------------------------------
(* Startup: app.js 35-42, 118-153 *)

\* the team lists the backend may return: none, and one team
TeamSnapshots ==
    { <<>>, <<[id |-> 9, name |-> "Ops", projects |-> <<"Infra">>]>> }

\* what the backend may answer to GET /teams: an error (non-2xx, network
\* failure, unparsable body), or a body with or without a teams field
TeamsResponses ==
    {[ok |-> FALSE, present |-> FALSE, teams |-> <<>>]} \cup
    {[ok |-> TRUE, present |-> FALSE, teams |-> <<>>]} \cup
    {[ok |-> TRUE, present |-> TRUE, teams |-> t] : t \in TeamSnapshots}

\* what the backend may answer to GET /health
HealthResponses == {"ok", "error"}

\* the team options in the markup of the page, which is not part of the
\* source: none, or one for each hardcoded team
PageTeamOptions == {<<>>, TeamNames(DefaultTeams)}

\* the state after the constructor has returned (app.js 2-42): bindEvents
\* has issued GET /health through testConnection, loadTeamsFromAPI has
\* issued GET /teams, no response has arrived and populateTeamSelect has
\* not run
Constructed ==
    /\ isLoggedIn = FALSE
    /\ currentUser = Null
    /\ authToken = Null
    /\ chatHistory = <<>>
    /\ uploadedDocuments = <<>>
    /\ teams = DefaultTeams
    /\ teamOptions \in PageTeamOptions
    /\ notificationElements = <<>>
    /\ mainViewShown = TRUE
    /\ adminPanelShown = FALSE
    /\ loginModalShown = FALSE
    /\ adminLoginBtnShown = TRUE
    /\ logoutBtnShown = FALSE
    /\ processingShown = FALSE
    /\ uploadProgressShown = FALSE
    /\ questionInput = <<>>
    /\ fileInputFiles = <<>>
    /\ fileList = <<>>
    /\ teamSelectValue = ""
    /\ projectSelectValue = ""
    /\ pending = SetToBag({Request("health", "", makeAPICallAuth(Null), <<>>),
                           Request("teams", "", makeAPICallAuth(Null), <<>>)})
    /\ lastEvent = "constructor"
    /\ input = <<>>
    /\ notices = <<>>
    /\ rendered = <<>>
    /\ evicted = <<>>
    /\ opened = <<>>

\* testConnection after its await (app.js 120-127)
HealthResponse ==
    \E r \in BagToSet(pending), response \in HealthResponses :
        /\ r.kind = "health"
        /\ pending' = Settle(r)
        /\ Did("healthResponse", <<response>>,
               IF response = "ok" THEN <<>>
               ELSE <<showNotification(
                   "Backend connection failed. Please check if the server is running.",
                   "error")>>)
        /\ UNCHANGED <<authVars, chatVars, uploadVars>>

\* a continuation that takes the teams field without looking at it
teamsArrivedUnchecked(list, response) == response.teams

\* the team list after loadTeamsFromAPI's continuation (app.js 133-134,
\* 137-139): an empty array is truthy in JavaScript
teamsArrived(list, response) ==
    IF response.ok /\ response.present THEN response.teams ELSE list

\* populateTeamSelect (app.js 143-153): the options are rebuilt, which
\* leaves the placeholder option selected
populateTeamSelect(list) ==
    /\ teamOptions' = TeamNames(list)
    /\ teamSelectValue' = ""

\* loadTeamsFromAPI after its await (app.js 133-140): populateTeamSelect
\* runs when the response carries teams and in the catch block, and not
\* when the response has no teams field
TeamsResponse ==
    \E r \in BagToSet(pending), response \in TeamsResponses :
        /\ r.kind = "teams"
        /\ pending' = Settle(r)
        /\ teams' = teamsArrived(teams, response)
        /\ IF response.ok /\ ~response.present
           THEN UNCHANGED <<teamOptions, teamSelectValue>>
           ELSE populateTeamSelect(teams')
        /\ Did("teamsResponse", <<response>>, <<>>)
        /\ UNCHANGED <<session, uploadedDocuments, views, loginModalShown, chatVars,
                       fileInputFiles, fileList, projectSelectValue,
                       uploadProgressShown>>

-----------------------------------------------------------------------------
(* Authentication: app.js 191-284 *)

\* what the user may have typed into the username and password boxes:
\* nothing, blanks only, and a padded name
CredentialTexts == {<<>>, <<Space>>, <<Space, "a", Space>>}

\* what the backend may answer to POST /auth/login: an error (non-2xx, network
\* failure, unparsable body), or a body with or without access_token and user
LoginResponses ==
    {[ok |-> FALSE, access_token |-> Undefined, user |-> Undefined]} \cup
    {[ok |-> TRUE, access_token |-> t, user |-> u] :
        t \in Tokens \cup {Undefined}, u \in Users \cup {Undefined}}

\* an updateAuthButtons that leaves the logout button as it is
updateAuthButtonsKeepsLogout(loggedIn) ==
    /\ adminLoginBtnShown' = ~loggedIn
    /\ logoutBtnShown' = logoutBtnShown

\* updateAuthButtons (app.js 66-88)
updateAuthButtons(loggedIn) ==
    /\ adminLoginBtnShown' = ~loggedIn
    /\ logoutBtnShown' = loggedIn

\* showAdminPanel (app.js 257-270)
showAdminPanel(loggedIn) ==
    /\ mainViewShown' = FALSE
    /\ adminPanelShown' = TRUE
    /\ updateAuthButtons(loggedIn)

\* showMainView that forgets the admin panel
showMainViewKeepsAdminPanel(loggedIn) ==
    /\ mainViewShown' = TRUE
    /\ adminPanelShown' = adminPanelShown
    /\ updateAuthButtons(loggedIn)

\* showMainView (app.js 272-284)
showMainView(loggedIn) ==
    /\ mainViewShown' = TRUE
    /\ adminPanelShown' = FALSE
    /\ updateAuthButtons(loggedIn)

\* showLoginModal (app.js 196-204): click on the admin login button
ShowLoginModal ==
    /\ loginModalShown' = TRUE
    /\ Did("showLoginModal", <<>>, <<>>)
    /\ UNCHANGED <<session, uploadedDocuments, teamVars, views, chatVars, uploadVars,
                   pending>>

\* hideLoginModal (app.js 206-214): click on the modal's close button
HideLoginModal ==
    /\ loginModalShown' = FALSE
    /\ Did("hideLoginModal", <<>>, <<>>)
    /\ UNCHANGED <<session, uploadedDocuments, teamVars, views, chatVars, uploadVars,
                   pending>>

\* hideAllModals (app.js 191-194): click on a modal overlay, or the Escape key
HideAllModals ==
    /\ loginModalShown' = FALSE
    /\ uploadProgressShown' = FALSE
    /\ Did("hideAllModals", <<>>, <<>>)
    /\ UNCHANGED <<session, uploadedDocuments, teamVars, views, chatVars, formVars,
                   pending>>

\* the check of app.js 223 with && in place of ||
credentialsMissingBoth(username, password) ==
    username = <<>> /\ password = <<>>

\* !username || !password (app.js 223)
credentialsMissing(username, password) ==
    username = <<>> \/ password = <<>>

\* handleLogin up to its await (app.js 216-232): submit of the login form
HandleLogin ==
    \E usernameValue \in CredentialTexts, passwordValue \in CredentialTexts :
        LET username == Trim(usernameValue)
            password == Trim(passwordValue)
        IN  /\ \/ /\ credentialsMissing(username, password)
                  /\ Did("handleLogin", <<usernameValue, passwordValue>>,
                         <<showNotification(
                             "Please enter both username and password", "error")>>)
                  /\ UNCHANGED pending
               \/ /\ ~credentialsMissing(username, password)
                  /\ CanIssue
                  /\ Did("handleLogin", <<usernameValue, passwordValue>>,
                         <<showNotification("Logging in...", "info")>>)
                  /\ Issue(Request("login", "", makeAPICallAuth(authToken),
                                   <<username, password>>))
            /\ UNCHANGED <<authVars, chatVars, uploadVars>>

\* a GET /documents that carries no Authorization header
DocumentsRequestWithoutToken(ctx, token) ==
    Request("documents", ctx, <<>>, <<>>)

\* makeAPICall('/documents') as loadDocuments issues it (app.js 457, 90-104)
DocumentsRequest(ctx, token) ==
    Request("documents", ctx, makeAPICallAuth(token), <<>>)

\* loadDocuments without the check of isLoggedIn
loadDocumentsUnchecked(ctx, loggedIn, token, rest) ==
    rest (+) SetToBag({DocumentsRequest(ctx, token)})

\* loadDocuments up to its await (app.js 454-457), called by ctx with rest
\* being the other requests in flight: the requests in flight afterwards
loadDocuments(ctx, loggedIn, token, rest) ==
    IF loggedIn
    THEN rest (+) SetToBag({DocumentsRequest(ctx, token)})
    ELSE rest

\* handleLogin resumed with a response that carries a token (app.js 233-241).
\* loadDocuments runs in the same step and reads the fields just assigned.
loginAccepted(r, response) ==
    /\ authToken' = response.access_token
    /\ currentUser' = response.user
    /\ isLoggedIn' = TRUE
    /\ loginModalShown' = FALSE
    /\ showAdminPanel(TRUE)
    /\ Did("loginResponse", <<response>>,
           <<showNotification("Login successful! Welcome to admin panel.", "success")>>)
    /\ pending' = loadDocuments("login", TRUE, response.access_token, Settle(r))
    /\ UNCHANGED <<uploadedDocuments, teamVars>>

\* handleLogin resumed with a response that carries no token: the if at
\* app.js 233 has no else
loginWithoutToken(r, response) ==
    /\ Did("loginResponse", <<response>>, <<>>)
    /\ pending' = Settle(r)
    /\ UNCHANGED authVars

\* a catch block that also closes the login modal
loginFailedClosesModal(r, response) ==
    /\ Did("loginResponse", <<response>>,
           <<showNotification("Login failed. Please check your credentials.", "error")>>)
    /\ pending' = Settle(r)
    /\ loginModalShown' = FALSE
    /\ UNCHANGED <<session, uploadedDocuments, teamVars, views>>

\* handleLogin resumed with an error: the catch at app.js 242-245
loginFailed(r, response) ==
    /\ Did("loginResponse", <<response>>,
           <<showNotification("Login failed. Please check your credentials.", "error")>>)
    /\ pending' = Settle(r)
    /\ UNCHANGED authVars

\* handleLogin after its await (app.js 233-245): the login response arrives
LoginResponse ==
    \E r \in BagToSet(pending), response \in LoginResponses :
        /\ r.kind = "login"
        /\ \/ /\ response.ok
              /\ ~Falsy(response.access_token)
              /\ loginAccepted(r, response)
           \/ /\ response.ok
              /\ Falsy(response.access_token)
              /\ loginWithoutToken(r, response)
           \/ /\ ~response.ok
              /\ loginFailed(r, response)
        /\ UNCHANGED <<chatVars, uploadVars>>

\* handleLogout (app.js 248-255): click on the logout button
HandleLogout ==
    /\ isLoggedIn' = FALSE
    /\ currentUser' = Null
    /\ authToken' = Null
    /\ uploadedDocuments' = <<>>
    /\ showMainView(FALSE)
    /\ Did("handleLogout", <<>>,
           <<showNotification("Logged out successfully", "success")>>)
    /\ UNCHANGED <<teamVars, loginModalShown, chatVars, uploadVars, pending>>

-----------------------------------------------------------------------------
(* Documents: app.js 427-466 *)

\* what the backend may answer to GET /documents: an error, or a body with
\* or without a documents collection
DocumentsResponses ==
    {[ok |-> FALSE, present |-> FALSE, documents |-> <<>>]} \cup
    {[ok |-> TRUE, present |-> FALSE, documents |-> <<>>]} \cup
    {[ok |-> TRUE, present |-> TRUE, documents |-> d] : d \in DocSnapshots}

\* resetUploadForm (app.js 427-436)
resetUploadForm ==
    /\ fileInputFiles' = <<>>
    /\ fileList' = <<>>
    /\ teamSelectValue' = ""
    /\ projectSelectValue' = ""

\* loadDocuments called on its own (app.js 454-457)
LoadDocuments ==
    /\ isLoggedIn => CanIssue
    /\ pending' = loadDocuments("", isLoggedIn, authToken, pending)
    /\ Did("loadDocuments", <<>>, <<>>)
    /\ UNCHANGED <<authVars, chatVars, uploadVars>>

\* the entries of a list that are not in the list replacing it
Dropped(old, new) ==
    LET gone(d) == \A i \in DOMAIN new : new[i] # d
    IN  SelectSeq(old, gone)

\* a continuation that adds the response's documents to the list
documentsArrivedMerges(list, response) ==
    IF response.ok /\ response.present
    THEN list \o Dropped(response.documents, list)
    ELSE list

\* a continuation that keeps a list it already has
documentsArrivedKeepsFirst(list, response) ==
    IF response.ok /\ response.present /\ list = <<>>
    THEN response.documents
    ELSE list

\* the document list after loadDocuments' continuation (app.js 458-460): an
\* empty array is truthy in JavaScript, so an empty collection replaces the
\* list too; isLoggedIn is not looked at again
documentsArrived(list, response) ==
    IF response.ok /\ response.present
    THEN response.documents
    ELSE list

\* loadDocuments after its await (app.js 458-465), then what its caller does
\* next: uploadFiles resets the upload form (app.js 419), handleLogin and
\* deleteDocument do nothing more.
DocumentsResponse ==
    \E r \in BagToSet(pending), response \in DocumentsResponses :
        /\ r.kind = "documents"
        /\ pending' = Settle(r)
        /\ uploadedDocuments' = documentsArrived(uploadedDocuments, response)
        /\ lastEvent' = "documentsResponse"
        /\ UNCHANGED notificationElements
        /\ input' = <<response, r>>
        /\ notices' = IF response.ok THEN <<>>
                      ELSE <<showNotification("Failed to load documents", "error")>>
        /\ rendered' = <<>>
        /\ evicted' = Dropped(uploadedDocuments, uploadedDocuments')
        /\ opened' = <<>>
        /\ IF r.ctx = "upload" THEN resetUploadForm ELSE UNCHANGED formVars
        /\ UNCHANGED <<session, teamVars, views, loginModalShown, chatVars,
                       uploadProgressShown>>

-----------------------------------------------------------------------------
(* Deleting and downloading documents: app.js 530-568 *)

\* the ids deleteDocument and downloadDocument may be called with: those of
\* the documents the backend lists, and the undefined that renderDocuments
\* would splice into a button of a document it found no id for
DocIds == {"d1", "d2", Undefined}

\* what the user may answer to confirm()
ConfirmAnswers == {"ok", "cancel"}

\* what the backend may answer to DELETE /documents/{id}: success, or an
\* error (non-2xx, network failure, unparsable body)
DeleteResponses == {"ok", "error"}

\* !id || id === 'undefined' (app.js 535, 553)
invalidId(id) == Falsy(id)

\* a confirm() whose answer is not looked at
confirmAlways(answer) == TRUE

\* confirm('Are you sure you want to delete this document?') (app.js 557)
confirm(answer) == answer = "ok"

\* deleteDocument up to its await (app.js 548-561): click on a document's
\* Delete button.  confirm() is only asked past the two checks.
DeleteDocument ==
    \E id \in DocIds, answer \in ConfirmAnswers :
        /\ \/ /\ ~isLoggedIn
              /\ Did("deleteDocument", <<id>>,
                     <<showNotification("Please login first", "error")>>)
              /\ UNCHANGED pending
           \/ /\ isLoggedIn
              /\ invalidId(id)
              /\ Did("deleteDocument", <<id>>,
                     <<showNotification("Invalid document ID", "error")>>)
              /\ UNCHANGED pending
           \/ /\ isLoggedIn
              /\ ~invalidId(id)
              /\ ~confirm(answer)
              /\ Did("deleteDocument", <<id, answer>>, <<>>)
              /\ UNCHANGED pending
           \/ /\ isLoggedIn
              /\ ~invalidId(id)
              /\ confirm(answer)
              /\ CanIssue
              /\ Did("deleteDocument", <<id, answer>>, <<>>)
              /\ Issue(Request("delete", "", makeAPICallAuth(authToken), <<<<id>>>>))
        /\ UNCHANGED <<authVars, chatVars, uploadVars>>

\* a continuation that takes the deleted document out of the list itself
afterDeleteRemoves(list, id) ==
    LET kept(d) == d # id
    IN  SelectSeq(list, kept)

\* the document list after a DELETE succeeded (app.js 561-563):
\* deleteDocument does not touch it, it calls loadDocuments
afterDelete(list, id) == list

\* deleteDocument after its await (app.js 562-567): the DELETE is answered.
\* On success loadDocuments is called, which returns at once when logged
\* out by then.
DeleteResponse ==
    \E r \in BagToSet(pending), response \in DeleteResponses :
        /\ r.kind = "delete"
        /\ \/ /\ response = "ok"
              /\ Did("deleteResponse", <<response, r>>,
                     <<showNotification("Document deleted successfully", "success")>>)
              /\ uploadedDocuments' = afterDelete(uploadedDocuments, r.body[1][1])
              /\ pending' = loadDocuments("delete", isLoggedIn, authToken, Settle(r))
           \/ /\ response = "error"
              /\ Did("deleteResponse", <<response, r>>,
                     <<showNotification("Delete failed", "error")>>)
              /\ UNCHANGED uploadedDocuments
              /\ pending' = Settle(r)
        /\ UNCHANGED <<session, teamVars, views, loginModalShown, chatVars, uploadVars>>

\* downloadDocument (app.js 530-546): click on a document's Download button.
\* window.open with a well-formed URL does not throw, so the catch at
\* app.js 542 is never entered.
DownloadDocument ==
    \E id \in DocIds :
        /\ \/ /\ ~isLoggedIn
              /\ notices' = <<showNotification("Please login first", "error")>>
              /\ opened' = <<>>
           \/ /\ isLoggedIn
              /\ invalidId(id)
              /\ notices' = <<showNotification("Invalid document ID", "error")>>
              /\ opened' = <<>>
           \/ /\ isLoggedIn
              /\ ~invalidId(id)
              /\ opened' = <<id>>
              /\ notices' = <<showNotification("Download started...", "info")>>
        /\ lastEvent' = "downloadDocument"
        /\ UNCHANGED notificationElements
        /\ input' = <<id>>
        /\ rendered' = <<>>
        /\ evicted' = <<>>
        /\ UNCHANGED <<authVars, chatVars, uploadVars, pending>>

-----------------------------------------------------------------------------
(* Questions and the chat history: app.js 570-698 *)

\* the chat history keeps this many entries (app.js 643-644)
HistoryMax == 10

\* the shortest question handleQuestion accepts (app.js 578)
MinQuestionLength == 3

\* what the user may type into the question box: blank, too short once
\* trimmed, and two questions that pass, one of them padded
QuestionTexts ==
    { <<Space, Space>>,
      <<Space, "a", Space>>,
      <<"a", "b", "c">>,
      <<Space, "a", "b", "d">> }

\* what the backend may answer to POST /ask: an error, a body displayResult
\* can render, or a body without a sources list, on which displayResult throws
\* (response.sources.map, app.js 613) before it inserts anything
AskResponses == {"error", "answer", "malformed"}

\* addToChatHistory that never cuts the history
addToChatHistoryUncut(history, question) ==
    <<question>> \o history

\* addToChatHistory with push in place of unshift
addToChatHistoryPushes(history, question) ==
    LET pushed == history \o <<question>>
    IN  IF Len(pushed) > HistoryMax
        THEN SubSeq(pushed, 1, HistoryMax)
        ELSE pushed

\* addToChatHistory (app.js 641-647): the history after question was added
addToChatHistory(history, question) ==
    LET unshifted == <<question>> \o history
    IN  IF Len(unshifted) > HistoryMax
        THEN SubSeq(unshifted, 1, HistoryMax)
        ELSE unshifted

\* the entries the slice at app.js 644 lets go of
Evicted(history, question) ==
    LET unshifted == <<question>> \o history
    IN  IF Len(unshifted) > HistoryMax
        THEN SubSeq(unshifted, HistoryMax + 1, Len(unshifted))
        ELSE <<>>

\* a length check that lets every question pass
tooShortNever(question) == FALSE

\* question.length < 3 (app.js 578)
tooShort(question) == Len(question) < MinQuestionLength

\* handleQuestion up to its await (app.js 570-588), value being the content
\* of the question box
handleQuestion(value) ==
    LET question == Trim(value)
    IN  \/ /\ question = <<>>
           /\ notices' = <<showNotification("Please enter a question", "error")>>
           /\ evicted' = <<>>
           /\ UNCHANGED <<chatHistory, processingShown, pending>>
        \/ /\ question # <<>>
           /\ tooShort(question)
           /\ notices' = <<showNotification(
                   "Question must be at least 3 characters long", "error")>>
           /\ evicted' = <<>>
           /\ UNCHANGED <<chatHistory, processingShown, pending>>
        \/ /\ question # <<>>
           /\ ~tooShort(question)
           /\ CanIssue
           /\ processingShown' = TRUE
           /\ chatHistory' = addToChatHistory(chatHistory, question)
           /\ evicted' = Evicted(chatHistory, question)
           /\ notices' = <<>>
           /\ Issue(Request("ask", "", makeAPICallAuth(authToken), <<question>>))

\* the user edits the question box
TypeQuestion ==
    \E text \in QuestionTexts :
        /\ questionInput' = text
        /\ Did("input", <<text>>, <<>>)
        /\ UNCHANGED <<authVars, chatHistory, processingShown, uploadVars, pending>>

\* click on the ask button, or Enter in the question box (app.js 165-168)
HandleQuestion ==
    /\ handleQuestion(questionInput)
    /\ lastEvent' = "handleQuestion"
    /\ UNCHANGED notificationElements
    /\ input' = <<questionInput>>
    /\ rendered' = <<>>
    /\ opened' = <<>>
    /\ UNCHANGED <<authVars, questionInput, uploadVars>>

\* click on an entry of the chat history list (app.js 657-663)
ClickHistoryItem ==
    \E i \in DOMAIN chatHistory :
        /\ questionInput' = chatHistory[i]
        /\ handleQuestion(chatHistory[i])
        /\ lastEvent' = "historyItemClick"
        /\ UNCHANGED notificationElements
        /\ input' = <<chatHistory[i]>>
        /\ rendered' = <<>>
        /\ opened' = <<>>
        /\ UNCHANGED <<authVars, uploadVars>>

\* a continuation that hides the overlay on the success path only
overlayAfterAskOnSuccess(shown, response) ==
    IF response = "answer" THEN FALSE ELSE shown

\* the processing overlay after handleQuestion's continuation: the finally
\* block (app.js 594-596) hides it whatever the try and catch blocks did
overlayAfterAsk(shown, response) == FALSE

\* a continuation that empties the question box whatever the outcome
inputAfterAskCleared(value, response) == <<>>

\* the question box after handleQuestion's continuation: emptied at app.js
\* 590, which is reached only if makeAPICall and displayResult did not throw
inputAfterAsk(value, response) ==
    IF response = "answer" THEN <<>> ELSE value

\* handleQuestion after its await (app.js 589-596): the answer arrives
AskResponse ==
    \E r \in BagToSet(pending), response \in AskResponses :
        /\ r.kind = "ask"
        /\ pending' = Settle(r)
        /\ \/ /\ response = "answer"
              /\ rendered' = <<r.body[1]>>
              /\ notices' = <<>>
           \/ /\ response \in {"error", "malformed"}
              /\ rendered' = <<>>
              /\ notices' = <<showNotification(
                      "Failed to process question. Please try again.", "error")>>
        /\ questionInput' = inputAfterAsk(questionInput, response)
        /\ processingShown' = overlayAfterAsk(processingShown, response)
        /\ lastEvent' = "askResponse"
        /\ UNCHANGED notificationElements
        /\ input' = <<response>>
        /\ evicted' = <<>>
        /\ opened' = <<>>
        /\ UNCHANGED <<authVars, chatHistory, uploadVars>>

\* clearChatHistory (app.js 677-682): click on the clear-history button
ClearChatHistory ==
    /\ chatHistory' = <<>>
    /\ Did("clearChatHistory", <<>>, <<>>)
    /\ UNCHANGED <<authVars, questionInput, processingShown, uploadVars, pending>>

-----------------------------------------------------------------------------
(* File selection and upload: app.js 286-452 *)

UpperCase == <<"A", "B", "C", "D", "E", "F", "G", "H", "I", "J", "K", "L", "M",
               "N", "O", "P", "Q", "R", "S", "T", "U", "V", "W", "X", "Y", "Z">>
LowerCase == <<"a", "b", "c", "d", "e", "f", "g", "h", "i", "j", "k", "l", "m",
               "n", "o", "p", "q", "r", "s", "t", "u", "v", "w", "x", "y", "z">>

\* String.prototype.toLowerCase
toLowerCase(s) ==
    IF s = <<>> THEN <<>> ELSE
    [i \in 1..Len(s) |->
        IF \E k \in DOMAIN UpperCase : UpperCase[k] = s[i]
        THEN LowerCase[CHOOSE k \in DOMAIN UpperCase : UpperCase[k] = s[i]]
        ELSE s[i]]

\* the positions of '.' in a name
Dots(name) == {i \in DOMAIN name : name[i] = "."}

\* name.split('.').pop(): what follows the last '.', the whole name if
\* it has none
LastSegment(name) ==
    IF Dots(name) = {} THEN name
    ELSE LET last == CHOOSE i \in Dots(name) : \A j \in Dots(name) : j <= i
         IN  SubSeq(name, last + 1, Len(name))

\* validTypes (app.js 345)
validTypes ==
    { <<".", "t", "x", "t">>, <<".", "p", "d", "f">>,
      <<".", "d", "o", "c">>, <<".", "d", "o", "c", "x">> }

\* isValidFile (app.js 344-348)
isValidFile(name) ==
    (<<".">> \o toLowerCase(LastSegment(name))) \in validTypes

\* the files the user may pick or drop
ReportPdf == <<"r", "e", "p", "o", "r", "t", ".", "p", "d", "f">>
SetupExe == <<"s", "e", "t", "u", "p", ".", "e", "x", "e">>
NotesTxt == <<"N", "O", "T", "E", "S", ".", "T", "X", "T">>
BarePdf == <<"p", "d", "f">>

FileSelections ==
    { <<>>, <<ReportPdf>>, <<SetupExe, ReportPdf>>, <<NotesTxt, SetupExe>>,
      <<BarePdf>> }

\* the options the user may pick in the two selects
TeamChoices == {"", "Engineering", "Ops"}
ProjectChoices == {"", "Cloud Team"}

\* what the backend may answer to POST /documents/upload: success, or an
\* error (non-2xx, network failure, unparsable body)
UploadResponses == {"ok", "error"}

\* the file items handleFileSelect appends (app.js 335-337)
AcceptedFiles(files) ==
    LET accepted(name) == isValidFile(name)
    IN  SelectSeq(files, accepted)

\* the notifications handleFileSelect shows (app.js 338-340)
RejectionNotices(files) ==
    LET rejected(name) == ~isValidFile(name)
        names == SelectSeq(files, rejected)
    IN  IF names = <<>> THEN <<>> ELSE
        [i \in 1..Len(names) |->
            Notification("File is not supported. Please upload .txt, .pdf, .doc, or .docx files.",
                         "error", names[i])]

\* handleFileSelect (app.js 330-342)
handleFileSelect(files) ==
    /\ fileList' = AcceptedFiles(files)
    /\ notices' = RejectionNotices(files)

\* change of the file input (app.js 322): the input holds the picked files
ChooseFiles ==
    \E files \in FileSelections :
        /\ fileInputFiles' = files
        /\ handleFileSelect(files)
        /\ lastEvent' = "fileInputChange"
        /\ UNCHANGED notificationElements
        /\ input' = <<files>>
        /\ rendered' = <<>>
        /\ evicted' = <<>>
        /\ opened' = <<>>
        /\ UNCHANGED <<authVars, chatVars, teamSelectValue, projectSelectValue,
                       uploadProgressShown, pending>>

\* drop on the upload area (app.js 318-320): the file input is not touched
DropFiles ==
    \E files \in FileSelections :
        /\ files # <<>>
        /\ handleFileSelect(files)
        /\ lastEvent' = "drop"
        /\ UNCHANGED notificationElements
        /\ input' = <<files>>
        /\ rendered' = <<>>
        /\ evicted' = <<>>
        /\ opened' = <<>>
        /\ UNCHANGED <<authVars, chatVars, fileInputFiles, teamSelectValue,
                       projectSelectValue, uploadProgressShown, pending>>

\* click on a file item's remove button (app.js 360-361)
RemoveFileItem ==
    \E i \in DOMAIN fileList :
        /\ fileList' = SubSeq(fileList, 1, i - 1) \o SubSeq(fileList, i + 1, Len(fileList))
        /\ Did("removeFileItem", <<>>, <<>>)
        /\ UNCHANGED <<authVars, chatVars, fileInputFiles, teamSelectValue,
                       projectSelectValue, uploadProgressShown, pending>>

\* the projects updateProjectSelect offers for a team (app.js 290-298)
ProjectOptions(teamName) ==
    {""} \cup UNION { {teams[k].projects[j] : j \in DOMAIN teams[k].projects} :
                       k \in {k \in DOMAIN teams : teams[k].name = teamName} }

\* change of the team select: updateProjectSelect (app.js 185, 286-299)
\* rebuilds the project options, which leaves the first, empty one selected
ChangeTeam ==
    \E team \in TeamChoices :
        /\ team = "" \/ \E k \in DOMAIN teamOptions : teamOptions[k] = team
        /\ teamSelectValue' = team
        /\ projectSelectValue' = ""
        /\ Did("teamChange", <<>>, <<>>)
        /\ UNCHANGED <<authVars, chatVars, fileInputFiles, fileList,
                       uploadProgressShown, pending>>

\* change of the project select
ChangeProject ==
    \E project \in ProjectChoices :
        /\ project \in ProjectOptions(teamSelectValue)
        /\ projectSelectValue' = project
        /\ Did("projectChange", <<>>, <<>>)
        /\ UNCHANGED <<authVars, chatVars, fileInputFiles, fileList, teamSelectValue,
                       uploadProgressShown, pending>>

\* the multipart body uploadFiles builds (app.js 404-407): team, project,
\* then one files part per file
UploadBody(team, project, files) == <<<<team>>, <<project>>>> \o files

\* the files parts of an upload request
FilesField(r) == SubSeq(r.body, 3, Len(r.body))

\* handleFileUpload and uploadFiles up to the await (app.js 373-413):
\* submit of the upload form
HandleFileUpload ==
    /\ \/ /\ ~isLoggedIn
          /\ Did("handleFileUpload", <<>>,
                 <<showNotification("Please login first", "error")>>)
          /\ UNCHANGED <<uploadProgressShown, pending>>
       \/ /\ isLoggedIn
          /\ teamSelectValue = "" \/ projectSelectValue = ""
          /\ Did("handleFileUpload", <<>>,
                 <<showNotification("Please select both team and project", "error")>>)
          /\ UNCHANGED <<uploadProgressShown, pending>>
       \/ /\ isLoggedIn
          /\ teamSelectValue # "" /\ projectSelectValue # ""
          /\ fileInputFiles = <<>>
          /\ Did("handleFileUpload", <<>>,
                 <<showNotification("Please select files to upload", "error")>>)
          /\ UNCHANGED <<uploadProgressShown, pending>>
       \/ /\ isLoggedIn
          /\ teamSelectValue # "" /\ projectSelectValue # ""
          /\ fileInputFiles # <<>>
          /\ CanIssue
          /\ uploadProgressShown' = TRUE
          /\ Issue(Request("upload", "", <<"Bearer", authToken>>,
                           UploadBody(teamSelectValue, projectSelectValue,
                                      fileInputFiles)))
          /\ Did("handleFileUpload", <<>>, <<>>)
    /\ UNCHANGED <<authVars, chatVars, formVars>>

\* a continuation that resets the upload form on failure too
UploadResponseResetsOnFailure ==
    \E r \in BagToSet(pending), response \in UploadResponses :
        /\ r.kind = "upload"
        /\ uploadProgressShown' = FALSE
        /\ \/ /\ response = "ok"
              /\ Did("uploadResponse", <<response>>,
                     <<showNotification("Files uploaded successfully!", "success")>>)
              /\ pending' = loadDocuments("upload", isLoggedIn, authToken, Settle(r))
              /\ IF isLoggedIn THEN UNCHANGED formVars ELSE resetUploadForm
           \/ /\ response = "error"
              /\ Did("uploadResponse", <<response>>,
                     <<showNotification("Upload failed. Please try again.", "error")>>)
              /\ pending' = Settle(r)
              /\ resetUploadForm
        /\ UNCHANGED <<authVars, chatVars>>

\* uploadFiles after its await (app.js 414-424) and the catch of
\* handleFileUpload (app.js 396-399).  On success loadDocuments is called;
\* when it returns at once (logged out by then) the form is reset in the
\* same step, otherwise when its response arrives.
UploadResponse ==
    \E r \in BagToSet(pending), response \in UploadResponses :
        /\ r.kind = "upload"
        /\ uploadProgressShown' = FALSE
        /\ \/ /\ response = "ok"
              /\ Did("uploadResponse", <<response>>,
                     <<showNotification("Files uploaded successfully!", "success")>>)
              /\ pending' = loadDocuments("upload", isLoggedIn, authToken, Settle(r))
              /\ IF isLoggedIn THEN UNCHANGED formVars ELSE resetUploadForm
           \/ /\ response = "error"
              /\ Did("uploadResponse", <<response>>,
                     <<showNotification("Upload failed. Please try again.", "error")>>)
              /\ pending' = Settle(r)
              /\ UNCHANGED formVars
        /\ UNCHANGED <<authVars, chatVars>>

-----------------------------------------------------------------------------
(* Notification elements: app.js 700-715 *)

\* the most notification timers running at once
MaxNotifications == 3

\* notifications the handlers show (app.js 254, 575)
ShownNotifications ==
    { showNotification("Logged out successfully", "success"),
      showNotification("Please enter a question", "error") }

\* the elements that are on the page
OnPage(elements) ==
    { elements[i].id : i \in {j \in DOMAIN elements : elements[j].inBody} }

\* the element objects that are not referenced by a running timer
FreeElements ==
    { e \in 1..MaxNotifications :
        \A i \in DOMAIN notificationElements : notificationElements[i].id # e }

\* showNotification (app.js 700-715): the element is appended to the body
\* and its timer is started
ShowNotification ==
    \E notification \in ShownNotifications :
        /\ Len(notificationElements) < MaxNotifications
        /\ LET e == CHOOSE i \in FreeElements : \A j \in FreeElements : i <= j
           IN  notificationElements' =
                   Append(notificationElements,
                          [id |-> e, notification |-> notification, inBody |-> TRUE])
        /\ lastEvent' = "showNotification"
        /\ input' = <<>>
        /\ notices' = <<notification>>
        /\ rendered' = <<>>
        /\ evicted' = <<>>
        /\ opened' = <<>>
        /\ UNCHANGED <<authVars, chatVars, uploadVars, pending>>

\* a remove() that takes every notification off the page
removeAll(elements, e) ==
    [i \in DOMAIN elements |-> [elements[i] EXCEPT !.inBody = FALSE]]

\* notification.remove() (app.js 712, 714), on the element the closure holds
remove(elements, e) ==
    [i \in DOMAIN elements |->
        IF elements[i].id = e THEN [elements[i] EXCEPT !.inBody = FALSE]
                              ELSE elements[i]]

\* a click on the close button of a notification on the page (app.js 712);
\* the timer of the element keeps running
CloseNotification ==
    \E i \in DOMAIN notificationElements :
        /\ notificationElements[i].inBody
        /\ notificationElements' =
               remove(notificationElements, notificationElements[i].id)
        /\ lastEvent' = "closeNotification"
        /\ input' = <<notificationElements[i]>>
        /\ notices' = <<>>
        /\ rendered' = <<>>
        /\ evicted' = <<>>
        /\ opened' = <<>>
        /\ UNCHANGED <<authVars, chatVars, uploadVars, pending>>

\* the 5-second timer of a notification fires (app.js 714); the timers all
\* run for the same time, so they fire in the order they were started
NotificationTimeout ==
    /\ notificationElements # <<>>
    /\ notificationElements' =
           Tail(remove(notificationElements, Head(notificationElements).id))
    /\ lastEvent' = "notificationTimeout"
    /\ input' = <<Head(notificationElements)>>
    /\ notices' = <<>>
    /\ rendered' = <<>>
    /\ evicted' = <<>>
    /\ opened' = <<>>
    /\ UNCHANGED <<authVars, chatVars, uploadVars, pending>>

-----------------------------------------------------------------------------
(* Specifications.  The controller's handlers fall into groups that share  *)
(* no state but `pending`; each group is explored on its own, from the      *)
(* initial state or from a state an earlier group reaches.                  *)

\* the session and the document list
NextAuth ==
    \/ ShowLoginModal
    \/ HideLoginModal
    \/ HideAllModals
    \/ HandleLogin
    \/ LoginResponse
    \/ HandleLogout
    \/ LoadDocuments
    \/ DocumentsResponse

SpecAuth == Init /\ [][NextAuth]_vars

\* the question flow and the chat history
NextChat ==
    \/ TypeQuestion
    \/ HandleQuestion
    \/ ClickHistoryItem
    \/ AskResponse
    \/ ClearChatHistory

SpecChat == Init /\ [][NextChat]_vars

\* the state after the user typed a question into the question box
QuestionTyped ==
    /\ isLoggedIn = FALSE
    /\ currentUser = Null
    /\ authToken = Null
    /\ chatHistory = <<>>
    /\ uploadedDocuments = <<>>
    /\ teams = DefaultTeams
    /\ teamOptions = TeamNames(DefaultTeams)
    /\ notificationElements = <<>>
    /\ mainViewShown = TRUE
    /\ adminPanelShown = FALSE
    /\ loginModalShown = FALSE
    /\ adminLoginBtnShown = TRUE
    /\ logoutBtnShown = FALSE
    /\ processingShown = FALSE
    /\ uploadProgressShown = FALSE
    /\ questionInput = <<"a", "b", "c">>
    /\ fileInputFiles = <<>>
    /\ fileList = <<>>
    /\ teamSelectValue = ""
    /\ projectSelectValue = ""
    /\ pending = EmptyBag
    /\ lastEvent = "input"
    /\ input = <<<<"a", "b", "c">>>>
    /\ notices = <<>>
    /\ rendered = <<>>
    /\ evicted = <<>>
    /\ opened = <<>>

\* the user asks that question, and asks it again from the history
NextAsk ==
    \/ HandleQuestion
    \/ ClickHistoryItem
    \/ AskResponse
    \/ ClearChatHistory

\* every /ask request in flight is answered at some time, with an answer or
\* with an error: the browser's fetch settles, and the event loop then runs
\* the continuation that awaits it
SpecAskFair == QuestionTyped /\ [][NextAsk]_vars /\ WF_vars(AskResponse)

\* the state after "admin" logged in with token "t1" and the document list
\* that login fetched arrived empty
LoggedIn ==
    /\ isLoggedIn = TRUE
    /\ currentUser = "admin"
    /\ authToken = "t1"
    /\ chatHistory = <<>>
    /\ uploadedDocuments = <<>>
    /\ teams = DefaultTeams
    /\ teamOptions = TeamNames(DefaultTeams)
    /\ notificationElements = <<>>
    /\ mainViewShown = FALSE
    /\ adminPanelShown = TRUE
    /\ loginModalShown = FALSE
    /\ adminLoginBtnShown = FALSE
    /\ logoutBtnShown = TRUE
    /\ processingShown = FALSE
    /\ uploadProgressShown = FALSE
    /\ questionInput = <<>>
    /\ fileInputFiles = <<>>
    /\ fileList = <<>>
    /\ teamSelectValue = ""
    /\ projectSelectValue = ""
    /\ pending = EmptyBag
    /\ lastEvent = "documentsResponse"
    /\ input = <<[ok |-> TRUE, present |-> TRUE, documents |-> <<>>],
                 DocumentsRequest("login", "t1")>>
    /\ notices = <<>>
    /\ rendered = <<>>
    /\ evicted = <<>>
    /\ opened = <<>>

\* file selection and upload, from the logged-in state
NextUpload ==
    \/ ChooseFiles
    \/ DropFiles
    \/ RemoveFileItem
    \/ ChangeTeam
    \/ ChangeProject
    \/ HandleFileUpload
    \/ UploadResponse
    \/ DocumentsResponse
    \/ HandleLogout
    \/ HideAllModals

SpecUpload == LoggedIn /\ [][NextUpload]_vars

\* the state after the upload form was filled in during an earlier session
\* (handleLogout does not reset it) and "admin" logged in again with token
\* "t1": the document fetch of that login is in flight
LoggedInAgain ==
    /\ isLoggedIn = TRUE
    /\ currentUser = "admin"
    /\ authToken = "t1"
    /\ chatHistory = <<>>
    /\ uploadedDocuments = <<>>
    /\ teams = DefaultTeams
    /\ teamOptions = TeamNames(DefaultTeams)
    /\ notificationElements = <<>>
    /\ mainViewShown = FALSE
    /\ adminPanelShown = TRUE
    /\ loginModalShown = FALSE
    /\ adminLoginBtnShown = FALSE
    /\ logoutBtnShown = TRUE
    /\ processingShown = FALSE
    /\ uploadProgressShown = FALSE
    /\ questionInput = <<>>
    /\ fileInputFiles = <<ReportPdf>>
    /\ fileList = <<ReportPdf>>
    /\ teamSelectValue = "Engineering"
    /\ projectSelectValue = "Cloud Team"
    /\ pending = SetToBag({DocumentsRequest("login", "t1")})
    /\ lastEvent = "loginResponse"
    /\ input = <<[ok |-> TRUE, access_token |-> "t1", user |-> "admin"]>>
    /\ notices = <<showNotification("Login successful! Welcome to admin panel.",
                                    "success")>>
    /\ rendered = <<>>
    /\ evicted = <<>>
    /\ opened = <<>>

\* the four document operations, from the logged-in state
NextDocs ==
    \/ LoadDocuments
    \/ DocumentsResponse
    \/ DeleteDocument
    \/ DeleteResponse
    \/ DownloadDocument
    \/ HandleFileUpload
    \/ UploadResponse
    \/ HandleLogout

SpecDocs == LoggedInAgain /\ [][NextDocs]_vars

\* startup: the two responses arrive while the user already uses the page
NextStartup ==
    \/ HealthResponse
    \/ TeamsResponse
    \/ ChangeTeam
    \/ ShowLoginModal
    \/ HideLoginModal

SpecStartup == Constructed /\ [][NextStartup]_vars

\* the notifications on the page; a timer that was started fires
NextNotify ==
    \/ ShowNotification
    \/ CloseNotification
    \/ NotificationTimeout

SpecNotify == Init /\ [][NextNotify]_vars /\ WF_vars(NotificationTimeout)

-----------------------------------------------------------------------------
(* Properties *)

Min(a, b) == IF a < b THEN a ELSE b

\* the last step was a submission that passed handleQuestion's validation
QuestionSubmitted ==
    /\ lastEvent \in {"handleQuestion", "historyItemClick"}
    /\ Len(Trim(input[1])) >= MinQuestionLength

\* C1: in every reachable state the chat history holds at most 10 entries.
ChatHistoryBounded == Len(chatHistory) <= HistoryMax

\* C1 witness: a question was added to a full history, which let go of an
\* entry and is still 10 long.
ChatHistoryOverflowed ==
    /\ QuestionSubmitted
    /\ evicted # <<>>
    /\ Len(chatHistory) = HistoryMax

\* C2: a submission puts its question first and keeps the previous entries
\* behind it in their order; of a history of 10 only the last is dropped.
HistoryPrepends ==
    [][QuestionSubmitted' =>
        /\ Len(chatHistory') = Min(Len(chatHistory) + 1, HistoryMax)
        /\ chatHistory'[1] = Trim(input'[1])
        /\ \A i \in 2..Len(chatHistory') : chatHistory'[i] = chatHistory[i - 1]
      ]_vars

\* C2 witness: a question was put in front of a different one while the
\* history was full, and the entry dropped differs from the one now last.
HistoryEvictedOldest ==
    /\ QuestionSubmitted
    /\ Len(chatHistory) = HistoryMax
    /\ evicted # <<>>
    /\ chatHistory[1] # chatHistory[2]
    /\ evicted[1] # chatHistory[HistoryMax]

\* C3: isLoggedIn implies that currentUser and authToken are both set,
\* whatever login response handleLogin accepted.
SessionAllOrNothing ==
    isLoggedIn => /\ currentUser \notin {Null, Undefined}
                  /\ authToken \notin {Null, Undefined}

\* C4: handleLogout leaves the session cleared, the document list empty,
\* the main view shown and the admin panel hidden.
LogoutClearsSession ==
    lastEvent = "handleLogout" =>
        /\ isLoggedIn = FALSE
        /\ currentUser = Null
        /\ authToken = Null
        /\ uploadedDocuments = <<>>
        /\ mainViewShown
        /\ ~adminPanelShown

\* C4 witness: a logout out of a session whose document fetch is still in
\* flight.
LoggedOutOfSession ==
    /\ lastEvent = "handleLogout"
    /\ \E r \in BagToSet(pending) : r.kind = "documents" /\ r.auth # <<>>

\* the extensions an upload may have
AllowedExtensions ==
    { <<"t", "x", "t">>, <<"p", "d", "f">>, <<"d", "o", "c">>, <<"d", "o", "c", "x">> }

\* the name has an extension, and it is an allowed one (in any case)
HasAllowedExtension(name) ==
    /\ Dots(name) # {}
    /\ toLowerCase(LastSegment(name)) \in AllowedExtensions

\* C5: the files field of an upload request holds no file whose extension
\* is outside the allowed ones: of a selection of one allowed and one
\* disallowed file only the allowed one is sent.  (Stated for the names
\* that have an extension; what a name without one counts as is C6's.)
UploadSendsOnlyAllowedFiles ==
    \A r \in BagToSet(pending) :
        r.kind = "upload" =>
            \A i \in DOMAIN FilesField(r) :
                Dots(FilesField(r)[i]) # {} => HasAllowedExtension(FilesField(r)[i])

\* C6: handleFileSelect lists exactly the files with an allowed extension
\* and shows one rejection notification for each other file.
FileSelectKeepsExactlyAllowed ==
    lastEvent \in {"fileInputChange", "drop"} =>
        LET allowed(name) == HasAllowedExtension(name)
            other(name) == ~HasAllowedExtension(name)
            others == SelectSeq(input[1], other)
        IN  /\ fileList = SelectSeq(input[1], allowed)
            /\ Len(notices) = Len(others)
            /\ \A i \in DOMAIN others :
                   notices[i].subject = others[i] /\ notices[i].type = "error"

\* C7: a login response that establishes no session, an error or a body
\* without access_token, comes with an error notification.
FailedLoginIsNotified ==
    (/\ lastEvent = "loginResponse"
     /\ ~input[1].ok \/ Falsy(input[1].access_token))
        => \E i \in DOMAIN notices : notices[i].type = "error"

\* C8: a login attempt whose backend call fails changes neither the
\* session, the document list nor the view, and leaves the login modal as
\* it is: not when it is submitted and not when the error arrives.
FailedLoginChangesNothing ==
    [][(\/ lastEvent' = "handleLogin"
        \/ lastEvent' = "loginResponse" /\ ~input'[1].ok)
        => UNCHANGED <<isLoggedIn, currentUser, authToken, uploadedDocuments,
                       mainViewShown, adminPanelShown, loginModalShown>>
      ]_vars

\* C8 witness: the error arrived while logged out with the modal open.
LoginFailedModalOpen ==
    /\ lastEvent = "loginResponse"
    /\ ~input[1].ok
    /\ loginModalShown
    /\ ~isLoggedIn

\* C9: a login form submitted with a username or password that is empty
\* after trimming issues no request and leaves the session unchanged.
EmptyCredentialsSendNothing ==
    [][(/\ lastEvent' = "handleLogin"
        /\ Trim(input'[1]) = <<>> \/ Trim(input'[2]) = <<>>)
        => /\ pending' = pending
           /\ UNCHANGED <<isLoggedIn, currentUser, authToken>>
      ]_vars

\* C9 witness: a blank password next to a username was submitted and
\* nothing is in flight.
BlankPasswordRejected ==
    /\ lastEvent = "handleLogin"
    /\ Trim(input[1]) # <<>>
    /\ input[2] # <<>> /\ Trim(input[2]) = <<>>
    /\ pending = EmptyBag

\* C10: a login response with a token stores token and user, sets
\* isLoggedIn, shows the admin panel and puts exactly one GET /documents
\* with the new token in flight in place of the login request.
LoginFetchesDocuments ==
    [][(/\ lastEvent' = "loginResponse"
        /\ input'[1].ok
        /\ ~Falsy(input'[1].access_token))
        => /\ authToken' = input'[1].access_token
           /\ currentUser' = input'[1].user
           /\ isLoggedIn'
           /\ adminPanelShown' /\ ~mainViewShown'
           /\ \E r \in BagToSet(pending) :
                 /\ r.kind = "login"
                 /\ pending' = (pending (-) SetToBag({r})) (+)
                       SetToBag({[kind |-> "documents", ctx |-> "login",
                                  auth |-> <<"Bearer", input'[1].access_token>>,
                                  body |-> <<>>]})
      ]_vars

\* C10 witness: a second login answered with another token, while the
\* document fetch of the first is still in flight with the old one.
ReloginFetchesWithNewToken ==
    /\ lastEvent = "loginResponse"
    /\ authToken = "t2"
    /\ \E r \in BagToSet(pending) :
          r.kind = "documents" /\ r.auth = <<"Bearer", "t2">>
    /\ \E r \in BagToSet(pending) :
          r.kind = "documents" /\ r.auth = <<"Bearer", "t1">>

\* the steps in which a document operation runs: the four handlers, and the
\* continuations of upload and delete, which call loadDocuments
DocumentEvents ==
    {"handleFileUpload", "loadDocuments", "deleteDocument", "downloadDocument"}
DocumentContinuations == {"uploadResponse", "deleteResponse"}

\* the step put no request in flight
NoRequestAdded ==
    \A r \in BagToSet(pending') : CopiesIn(r, pending') <= CopiesIn(r, pending)

\* C11: while isLoggedIn is false, a step of upload, list, delete or
\* download (handler or continuation) puts no request in flight and opens
\* no download target.
LoggedOutDocOpsSendNothing ==
    [][(/\ ~isLoggedIn
        /\ lastEvent' \in DocumentEvents \cup DocumentContinuations)
        => NoRequestAdded /\ opened' = <<>>
      ]_vars

\* C11 witness: an upload succeeded after the user had logged out, so that
\* loadDocuments was called while logged out, and nothing is in flight.
UploadFinishedLoggedOut ==
    /\ lastEvent = "uploadResponse"
    /\ input[1] = "ok"
    /\ ~isLoggedIn
    /\ pending = EmptyBag

\* C12: upload, list, delete and download, invoked while isLoggedIn is
\* false, each show an error notification.
LoggedOutDocOpsNotified ==
    (~isLoggedIn /\ lastEvent \in DocumentEvents)
        => \E i \in DOMAIN notices : notices[i].type = "error"

\* the last step was a submission that did not pass handleQuestion's
\* validation: the question was empty or shorter than 3 once trimmed
QuestionRejected ==
    /\ lastEvent \in {"handleQuestion", "historyItemClick"}
    /\ Len(Trim(input[1])) < MinQuestionLength

\* C13: a submission of a question that is empty or shorter than 3
\* characters after trimming puts no request in flight, leaves the chat
\* history as it is and does not show the processing overlay.
ShortQuestionSendsNothing ==
    [][QuestionRejected' =>
        /\ pending' = pending
        /\ chatHistory' = chatHistory
        /\ processingShown' = processingShown
      ]_vars

\* C13 witness: a padded one-letter question was turned down after an
\* earlier question had been answered, with the overlay hidden.
ShortQuestionRejected ==
    /\ QuestionRejected
    /\ Trim(input[1]) # <<>>
    /\ input[1] # Trim(input[1])
    /\ chatHistory # <<>>
    /\ ~processingShown

\* C14: the continuation of handleQuestion leaves the processing overlay
\* hidden, whether the answer was rendered, the backend failed or rendering
\* threw; and when every request in flight is answered at some time, an
\* overlay that is shown is hidden at some time.
OverlayHiddenOnCompletion ==
    /\ [][lastEvent' = "askResponse" => ~processingShown']_vars
    /\ processingShown ~> ~processingShown

\* C14 witness: the overlay was hidden by the continuation of a question
\* whose response could not be rendered.
OverlayHiddenAfterThrow ==
    /\ lastEvent = "askResponse"
    /\ input[1] = "malformed"
    /\ ~processingShown
    /\ chatHistory # <<>>
    /\ pending = EmptyBag

\* the step took one request of the kind out of flight and put the requests
\* of added in flight
Answered(kind, added) ==
    \E r \in BagToSet(pending) :
        /\ r.kind = kind
        /\ pending' = (pending (-) SetToBag({r})) (+) SetToBag(added)

FormIsReset ==
    /\ fileInputFiles = <<>>
    /\ fileList = <<>>
    /\ teamSelectValue = ""
    /\ projectSelectValue = ""

\* C15: the continuation of an upload hides the upload progress overlay.
\* When the upload failed it shows the one upload-failure notification,
\* puts no request in flight and leaves the document list and the upload
\* form as they are.  When it succeeded (still logged in) it puts the GET
\* /documents in flight, and the form is reset when that one is answered.
UploadFailureLeavesState ==
    [][/\ lastEvent' = "uploadResponse" =>
            /\ ~uploadProgressShown'
            /\ input'[1] = "error" =>
                  /\ notices' = <<showNotification("Upload failed. Please try again.",
                                                   "error")>>
                  /\ Answered("upload", {})
                  /\ UNCHANGED <<uploadedDocuments, fileInputFiles, fileList,
                                 teamSelectValue, projectSelectValue>>
            /\ (input'[1] = "ok" /\ isLoggedIn) =>
                  /\ Answered("upload", {DocumentsRequest("upload", authToken)})
                  /\ UNCHANGED uploadedDocuments
       /\ (lastEvent' = "documentsResponse" /\ input'[2].ctx = "upload") => FormIsReset'
      ]_vars

\* C15 witness: an upload of a filled-in form failed, and the form is
\* still filled in.
UploadFailedFormKept ==
    /\ lastEvent = "uploadResponse"
    /\ input[1] = "error"
    /\ isLoggedIn
    /\ fileInputFiles # <<>>
    /\ fileList # <<>>
    /\ teamSelectValue # "" /\ projectSelectValue # ""

\* the user was asked to confirm in the last step and gave this answer
Confirmed(answer) == Len(input) = 2 /\ input[2] = answer

\* the documents in the list
Listed == {uploadedDocuments[i] : i \in DOMAIN uploadedDocuments}

\* C16: a step of deleteDocument puts a request in flight only when the
\* user confirmed, and then it is the DELETE of that document; when the
\* user cancelled, the requests in flight and the document list are
\* unchanged.
DeleteNeedsConfirmation ==
    [][lastEvent' = "deleteDocument" =>
        /\ ~NoRequestAdded =>
              /\ Confirmed("ok")'
              /\ \E r \in BagToSet(pending') :
                    /\ r.kind = "delete"
                    /\ r.body = <<<<input'[1]>>>>
                    /\ pending' = pending (+) SetToBag({r})
        /\ Confirmed("cancel")' => pending' = pending
        /\ uploadedDocuments' = uploadedDocuments
      ]_vars

\* C16 witness: the deletion of a listed document was cancelled.
DeleteCancelled ==
    /\ lastEvent = "deleteDocument"
    /\ Confirmed("cancel")
    /\ isLoggedIn
    /\ input[1] \in Listed

\* C17: the continuation of a DELETE leaves the document list as it is; a
\* successful one (still logged in) puts the GET /documents in flight, a
\* failed one puts nothing in flight.  The list changes only when a GET
\* /documents is answered, or on logout.
DeleteKeepsListUntilRefetch ==
    [][/\ lastEvent' = "deleteResponse" =>
            /\ uploadedDocuments' = uploadedDocuments
            /\ input'[1] = "error" => Answered("delete", {})
            /\ (input'[1] = "ok" /\ isLoggedIn) =>
                  Answered("delete", {DocumentsRequest("delete", authToken)})
       /\ uploadedDocuments' # uploadedDocuments =>
            lastEvent' \in {"documentsResponse", "handleLogout"}
      ]_vars

\* C17 witness: the DELETE of a listed document succeeded, the document is
\* still in the list and the GET /documents is in flight.
DeletedDocumentStillListed ==
    /\ lastEvent = "deleteResponse"
    /\ input[1] = "ok"
    /\ input[2].body[1][1] \in Listed
    /\ BagIn(DocumentsRequest("delete", authToken), pending)

\* the last step was the continuation of loadDocuments, resumed with a
\* response that carries a documents collection
CollectionArrived ==
    /\ lastEvent = "documentsResponse"
    /\ input[1].ok
    /\ input[1].present

\* C18: when a GET /documents is answered with a documents collection the
\* document list becomes that collection, an empty one included; when it is
\* answered with an error or without a collection the list is unchanged.
DocumentsResponseReplacesList ==
    [][lastEvent' = "documentsResponse" =>
        IF CollectionArrived'
        THEN uploadedDocuments' = input'[1].documents
        ELSE uploadedDocuments' = uploadedDocuments
      ]_vars

\* C18 witness: an empty collection arrived and took the place of a list
\* that held documents.
EmptyCollectionReplacedList ==
    /\ CollectionArrived
    /\ input[1].documents = <<>>
    /\ evicted # <<>>
    /\ uploadedDocuments = <<>>

\* C19: while the user stays logged in, once no GET /documents is in flight
\* any more the document list is the collection of the response that
\* arrived last, whichever of the requests was issued first.
LastResponseWins ==
    (/\ CollectionArrived
     /\ isLoggedIn
     /\ \A r \in BagToSet(pending) : r.kind # "documents")
        => uploadedDocuments = input[1].documents

\* C19 witness: the response that arrived last is the one of the GET that
\* login issued, the first to be issued; it replaced documents that the
\* response of a GET issued after it had put into the list.
StaleResponseWon ==
    /\ CollectionArrived
    /\ isLoggedIn
    /\ \A r \in BagToSet(pending) : r.kind # "documents"
    /\ input[2].ctx = "login"
    /\ evicted # <<>>
    /\ uploadedDocuments # <<>>

\* the requests the step put in flight
Added == {r \in BagToSet(pending') : CopiesIn(r, pending') > CopiesIn(r, pending)}

\* C20: every list, upload and delete request is put in flight with the
\* header Authorization: Bearer <token>, the token being the authToken the
\* controller holds at that moment, which is not null.
DocumentRequestsCarryToken ==
    [][\A r \in Added :
          r.kind \in {"documents", "upload", "delete"} =>
              /\ authToken' \notin {Null, Undefined, ""}
              /\ r.auth = <<"Bearer", authToken'>>
      ]_vars

\* C20 witness: an upload was submitted while a DELETE is in flight, both
\* with the token of the session.
UploadAndDeleteInFlight ==
    /\ lastEvent = "handleFileUpload"
    /\ \E r \in BagToSet(pending) :
          r.kind = "upload" /\ r.auth = <<"Bearer", authToken>>
    /\ \E r \in BagToSet(pending) :
          r.kind = "delete" /\ r.auth = <<"Bearer", authToken>>

\* C21: when the startup GET /teams is answered, the team list becomes the
\* teams of the response if it carries a teams field, and is the hardcoded
\* list if the request failed or the response has no teams field; nothing
\* else changes the team list.
TeamsFallBackToDefault ==
    [][/\ lastEvent' = "teamsResponse" =>
            teams' = IF input'[1].ok /\ input'[1].present
                     THEN input'[1].teams
                     ELSE DefaultTeams
       /\ teams' # teams => lastEvent' = "teamsResponse"
      ]_vars

\* C21 witness: GET /teams was answered without a teams field and the team
\* list is the hardcoded one.
TeamsAnsweredWithoutField ==
    /\ lastEvent = "teamsResponse"
    /\ input[1].ok
    /\ ~input[1].present
    /\ teams = DefaultTeams

\* The startup GET /teams has been answered.
TeamsLoaded == \A r \in BagToSet(pending) : r.kind # "teams"

\* C28: once the startup GET /teams has been answered, the team selector
\* offers exactly one option per entry of the current team list, in order.
SelectorOffersTeamList == TeamsLoaded => teamOptions = TeamNames(teams)

\* C22: every notification on the page is eventually taken off it; it is
\* taken off only by its own close button or its own timer, so closing or
\* timing out one notification leaves every other one on the page.
NotificationsDismissedOnTheirOwn ==
    /\ \A e \in 1..MaxNotifications :
           (e \in OnPage(notificationElements))
               ~> (e \notin OnPage(notificationElements))
    /\ [][\A e \in OnPage(notificationElements) \ OnPage(notificationElements') :
              /\ lastEvent' \in {"closeNotification", "notificationTimeout"}
              /\ input'[1].id = e
         ]_vars

\* C22 witness: a notification was closed while another one stays on the
\* page.
ClosedOneOfTwoNotifications ==
    /\ lastEvent = "closeNotification"
    /\ input[1].id \notin OnPage(notificationElements)
    /\ OnPage(notificationElements) # {}

\* C23: a question that passes validation is at the front of the chat
\* history in the step that issues its POST /ask, and the continuation leaves
\* the history as it is whatever the outcome; the continuation empties the
\* question box, and renders the result, exactly when the request succeeded,
\* and leaves the box as it is otherwise; no other step empties the box.
QuestionKeptInputClearedOnSuccess ==
    [][/\ QuestionSubmitted' =>
            /\ chatHistory' # <<>>
            /\ chatHistory'[1] = Trim(input'[1])
            /\ pending' = pending (+) SetToBag({Request("ask", "",
                              makeAPICallAuth(authToken), <<Trim(input'[1])>>)})
       /\ lastEvent' = "askResponse" =>
            /\ chatHistory' = chatHistory
            /\ IF input'[1] = "answer"
               THEN questionInput' = <<>> /\ rendered' # <<>>
               ELSE questionInput' = questionInput /\ rendered' = <<>>
       /\ (questionInput # <<>> /\ questionInput' = <<>>) =>
            (lastEvent' = "askResponse" /\ input'[1] = "answer")
      ]_vars

\* C23 witness: a question's request has failed; the question is still in
\* the box and in the chat history.
AskFailedQuestionKept ==
    /\ lastEvent = "askResponse"
    /\ input[1] = "error"
    /\ questionInput # <<>>
    /\ \E i \in DOMAIN chatHistory : chatHistory[i] = Trim(questionInput)

\* a POST /ask is in flight
AskInFlight == \E r \in BagToSet(pending) : r.kind = "ask"

\* C26: in every reachable state with a POST /ask in flight the processing
\* overlay is shown.
OverlayShownWhileAsking == AskInFlight => processingShown

\* C24: a login response that arrives right after handleLogout, which is the
\* response to a login submitted before that logout, leaves the session
\* logged out: isLoggedIn false, no token, the admin panel hidden.
StaleLoginStaysLoggedOut ==
    [][(lastEvent = "handleLogout" /\ lastEvent' = "loginResponse") =>
           /\ ~isLoggedIn'
           /\ authToken' = Null
           /\ ~adminPanelShown'
      ]_vars

\* C25: in every reachable state where isLoggedIn is false the document
\* list is empty.
LoggedOutListEmpty == ~isLoggedIn => uploadedDocuments = <<>>

\* C27: in every reachable state exactly one of the main view and the admin
\* panel is shown, the admin panel is shown exactly when isLoggedIn is true,
\* and so is the logout button.
ViewsFollowSession ==
    /\ mainViewShown # adminPanelShown
    /\ adminPanelShown <=> isLoggedIn
    /\ logoutBtnShown <=> isLoggedIn

\* C27 witness: a login was accepted after a logout; the admin panel and the
\* logout button are shown and the main view is hidden.
AdminPanelShownAfterLogin ==
    /\ lastEvent = "loginResponse"
    /\ isLoggedIn
    /\ adminPanelShown
    /\ ~mainViewShown
    /\ logoutBtnShown
    /\ ~adminLoginBtnShown

====
